---- MODULE Spec2Model ----
(***************************************************************************)
(* Field::from_bits_le (circuits/types/field/src/helpers/from_bits_le.rs)  *)
(* and its Metadata oracle (count, output_type), as a state machine over a *)
(* small prime base field.  One call of from_bits_le walks the positions   *)
(*   idle -> excess -> reconstruct -> canonicity -> store -> done          *)
(* and "halted" stands for any panic / E::halt during construction.        *)
(***************************************************************************)
EXTENDS Integers, Sequences, FiniteSets

\* ---------------------------------------------------------------- bounds
\* Largest base-field modulus explored together with excess bits (the code is
\* generic in E::BaseField).
MaxModulus == 7
\* Largest base-field modulus explored with inputs of at most size_in_bits bits.
MaxWideModulus == 31
\* Largest number of bits supplied beyond size_in_bits.
MaxExcess == 2

\* ------------------------------------------------------ program constants
\* Count::is(0, 0, 252 + excess_private, 418 + excess_constraints)
BasePrivate == 252
BaseConstraints == 418

VARIABLES
    MODULUS,    \* E::BaseField's prime modulus
    pc,         \* position inside from_bits_le
    bits_le,    \* the argument: a sequence of Boolean<E>
    circuit,    \* what the call has allocated in the environment E
    output,     \* the Field<E> under construction
    checks      \* number of E::assert(previous.nand(current_bit)) calls made

vars == <<MODULUS, pc, bits_le, circuit, output, checks>>

\* ------------------------------------------------------------- utilities
Modes == {"Constant", "Public", "Private"}

IsPrime(n) == n > 1 /\ \A d \in 2..(n - 1) : n % d # 0

\* The odd primes that can play E::BaseField.
Moduli == {n \in 3..MaxModulus : IsPrime(n)}

WideModuli == {n \in 3..MaxWideModulus : IsPrime(n)}

RECURSIVE Pow2(_)
Pow2(n) == IF n = 0 THEN 1 ELSE 2 * Pow2(n - 1)

RECURSIVE BitLength(_)
BitLength(n) == IF n = 0 THEN 0 ELSE 1 + BitLength(n \div 2)

Min(a, b) == IF a < b THEN a ELSE b

\* usize::saturating_sub
SaturatingSub(a, b) == IF a > b THEN a - b ELSE 0

\* iter().take(n)
Take(s, n) == SubSeq(s, 1, Min(n, Len(s)))

\* iter().rev()
Rev(s) == [i \in 1..Len(s) |-> s[Len(s) + 1 - i]]

\* iter().skip(n)
Skip(s, n) == SubSeq(s, n + 1, Len(s))

\* A Boolean<E>: its mode and its (witness) value.
Bool(m, v) == [mode |-> m, value |-> v]

Booleans == {Bool(m, v) : m \in Modes, v \in BOOLEAN}

\* ------------------------------------------------------- field definition
\* E::BaseField::size_in_bits()
size_in_bits == BitLength(MODULUS)

\* E::BaseField::size_in_data_bits(): the capacity, one bit less.
size_in_data_bits == size_in_bits - 1

\* Field::to_bits_be of a constant: size_in_bits booleans, most significant first.
ToBitsBE(x) == [i \in 1..size_in_bits |-> (x \div Pow2(size_in_bits - i)) % 2 = 1]

\* Field::new(mode, x).to_bits_le(): the canonical decomposition of x.
ToBitsLE(mode, x) == [i \in 1..size_in_bits |-> Bool(mode, (x \div Pow2(i - 1)) % 2 = 1)]

\* --------------------------------------------------- constraint substrate
EmptyCircuit ==
    [num_constants |-> 0, num_public |-> 0, num_private |-> 0,
     num_constraints |-> 0, satisfied |-> TRUE]

IsConstant(b) == b.mode = "Constant"

\* E::enforce: a constraint over constants only is not appended to the circuit.
Enforce(c, constant, holds) ==
    IF constant
    THEN [c EXCEPT !.satisfied = @ /\ holds]
    ELSE [c EXCEPT !.num_constraints = @ + 1, !.satisfied = @ /\ holds]

\* A gate over two variables: one new private witness and one constraint,
\* satisfied by the witness the gate computes.
Gate(c, v) ==
    [bit |-> Bool("Private", v),
     circuit |-> [c EXCEPT !.num_private = @ + 1, !.num_constraints = @ + 1]]

Not(b) == Bool(b.mode, ~b.value)

\* Boolean | Boolean
BitOr(c, a, b) ==
    IF IsConstant(a) THEN [bit |-> IF a.value THEN a ELSE b, circuit |-> c]
    ELSE IF IsConstant(b) THEN [bit |-> IF b.value THEN b ELSE a, circuit |-> c]
    ELSE Gate(c, a.value \/ b.value)

\* Boolean & Boolean
BitAnd(c, a, b) ==
    IF IsConstant(a) THEN [bit |-> IF a.value THEN b ELSE a, circuit |-> c]
    ELSE IF IsConstant(b) THEN [bit |-> IF b.value THEN a ELSE b, circuit |-> c]
    ELSE Gate(c, a.value /\ b.value)

\* Boolean::nand
BitNand(c, a, b) ==
    IF IsConstant(a) THEN [bit |-> IF a.value THEN Not(b) ELSE Not(a), circuit |-> c]
    ELSE IF IsConstant(b) THEN [bit |-> IF b.value THEN Not(a) ELSE Not(b), circuit |-> c]
    ELSE Gate(c, ~(a.value /\ b.value))

\* Mode::combine over the modes of a collection: Private dominates, then Public.
EjectMode(s) ==
    IF \E i \in 1..Len(s) : s[i].mode = "Private" THEN "Private"
    ELSE IF \E i \in 1..Len(s) : s[i].mode = "Public" THEN "Public"
    ELSE "Constant"

\* Mode of a linear combination built from these bits: constant iff every
\* term is constant, otherwise the combined mode of its terms.
LcMode(s) == EjectMode(s)

\* ------------------------------------------------------------ from_bits_le
\* Faulty variant of ExcessBits: the slice starts one bit late.
ExcessBitsSkipFirst(bits) == Skip(bits, size_in_bits + 1)

\* bits_le[size_in_bits..]
ExcessBits(bits) == Skip(bits, size_in_bits)

\* .iter().fold(acc, |acc, bit| acc | bit), threading the circuit through.
RECURSIVE FoldOr(_, _)
FoldOr(st, s) ==
    IF s = <<>> THEN st
    ELSE FoldOr(BitOr(st.circuit, st.bit, Head(s)), Tail(s))

\* Faulty variant of ExcessCheck: the OR-reduction is built but never asserted zero.
ExcessCheckNoAssert(c, bits) ==
    IF Len(bits) > size_in_bits
    THEN FoldOr([bit |-> Bool("Constant", FALSE), circuit |-> c], ExcessBits(bits)).circuit
    ELSE c

\* if num_bits > size_in_bits { should_be_zero = fold; E::assert_eq(E::zero(), should_be_zero) }
ExcessCheck(c, bits) ==
    IF Len(bits) > size_in_bits
    THEN LET should_be_zero ==
                 FoldOr([bit |-> Bool("Constant", FALSE), circuit |-> c], ExcessBits(bits))
         IN  Enforce(should_be_zero.circuit, IsConstant(should_be_zero.bit),
                     should_be_zero.bit.value = FALSE)
    ELSE c

\* Faulty variant of LinearCombination: the coefficient is never doubled.
RECURSIVE LinearCombinationNoDouble(_, _)
LinearCombinationNoDouble(s, coefficient) ==
    IF s = <<>> THEN 0
    ELSE ((IF Head(s).value THEN coefficient ELSE 0)
          + LinearCombinationNoDouble(Tail(s), coefficient)) % MODULUS

\* output += Field::from_boolean(bit) * &coefficient; coefficient = coefficient.double()
RECURSIVE LinearCombination(_, _)
LinearCombination(s, coefficient) ==
    IF s = <<>> THEN 0
    ELSE ((IF Head(s).value THEN coefficient ELSE 0)
          + LinearCombination(Tail(s), (2 * coefficient) % MODULUS)) % MODULUS

\* A Field<E> whose bits_le cell is still empty.
NewField(v, m) == [value |-> v, mode |-> m, cached |-> FALSE, bits_le |-> <<>>, writes |-> 0]

\* let mut output = Field::zero(); ... for bit in bits_le.iter().take(size_in_bits)
Reconstruct(bits) ==
    LET terms == Take(bits, size_in_bits)
    IN  NewField(LinearCombination(terms, 1), LcMode(terms))

\* Faulty variant of NeedsCanonicity: the comparison guarded by size_in_bits.
NeedsCanonicityAtFullWidth(bits) == Len(bits) > size_in_bits

\* if num_bits > size_in_data_bits
NeedsCanonicity(bits) == Len(bits) > size_in_data_bits

\* let modulus = -E::BaseField::one();
ModulusMinusOne == MODULUS - 1

\* bits_le.len() - size_in_bits on usize: a panic in a debug build, a wrap in a
\* release build (then skip() empties the iterator and zip_eq panics at once).
SkipUnderflows(bits) == Len(bits) < size_in_bits

\* Faulty variant of BitsBE: the excess bits are not skipped.
BitsBENoSkip(bits) == Rev(bits)

\* bits_le.iter().rev().skip(bits_le.len() - size_in_bits)
BitsBE(bits) == Skip(Rev(bits), Len(bits) - size_in_bits)

\* sequence.iter().fold(previous, |a, b| a & *b), threading the circuit through.
RECURSIVE FoldAnd(_, _)
FoldAnd(st, s) ==
    IF s = <<>> THEN st
    ELSE FoldAnd(BitAnd(st.circuit, st.bit, Head(s)), Tail(s))

\* Faulty variant of ClosePendingRun: the run is cleared without being folded into previous.
ClosePendingRunNoFold(st) == [st EXCEPT !.sequence = <<>>]

\* if !sequence.is_empty() { previous = fold; sequence.clear() }
ClosePendingRun(st) ==
    IF st.sequence # <<>>
    THEN LET r == FoldAnd([bit |-> st.previous, circuit |-> st.circuit], st.sequence)
         IN  [st EXCEPT !.previous = r.bit, !.circuit = r.circuit, !.sequence = <<>>]
    ELSE st

\* One iteration of the loop over (modulus_bit, current_bit).
CompareBit(st, modulus_bit, current_bit) ==
    IF modulus_bit
    THEN [st EXCEPT !.sequence = Append(@, current_bit)]
    ELSE LET closed == ClosePendingRun(st)
             nand == BitNand(closed.circuit, closed.previous, current_bit)
         IN  [closed EXCEPT !.circuit = Enforce(nand.circuit, IsConstant(nand.bit), nand.bit.value),
                            !.checks = @ + 1]

\* The iterations zip_eq yields: as many as the shorter side holds.
RECURSIVE CompareLoop(_, _, _, _)
CompareLoop(st, modulus_bits, bits_be, i) ==
    IF i > Min(Len(modulus_bits), Len(bits_be)) THEN st
    ELSE CompareLoop(CompareBit(st, modulus_bits[i], bits_be[i]), modulus_bits, bits_be, i + 1)

\* Lines 46-84: the comparison against modulus - 1, with every way it can panic.
Canonicity(c, bits) ==
    IF ~NeedsCanonicity(bits) THEN [circuit |-> c, checks |-> 0, halted |-> FALSE]
    ELSE IF SkipUnderflows(bits) THEN [circuit |-> c, checks |-> 0, halted |-> TRUE]
    ELSE LET modulus_bits == ToBitsBE(ModulusMinusOne)
             bits_be == BitsBE(bits)
             end == CompareLoop([previous |-> Bool("Constant", TRUE), sequence |-> <<>>,
                                 circuit |-> c, checks |-> 0],
                                modulus_bits, bits_be, 1)
         IN  [circuit |-> end.circuit, checks |-> end.checks,
              halted |-> \/ Len(modulus_bits) # Len(bits_be)     \* zip_eq
                         \/ end.sequence # <<>>]                  \* debug_assert!

\* Faulty variant of Sanitize: resized up, but never truncated to size_in_bits.
SanitizeNoTake(bits) ==
    [i \in 1..(IF Len(bits) > size_in_bits THEN Len(bits) ELSE size_in_bits) |->
        IF i <= Len(bits) THEN bits[i] ELSE Bool("Constant", FALSE)]

\* bits_le.iter().take(size_in_bits).cloned().collect(); resize(size_in_bits, constant(false))
Sanitize(bits) ==
    LET kept == Take(bits, size_in_bits)
    IN  [i \in 1..size_in_bits |-> IF i <= Len(kept) THEN kept[i] ELSE Bool("Constant", FALSE)]

\* output.bits_le.set(bits_le): a OnceCell, Err when already filled (then E::halt).
StoreBits(out, bits) ==
    IF out.cached
    THEN [output |-> out, halted |-> TRUE]
    ELSE [output |-> [out EXCEPT !.cached = TRUE, !.bits_le = Sanitize(bits), !.writes = @ + 1],
          halted |-> FALSE]

\* The whole of from_bits_le on a fresh scope, as one function.
FromBitsLE(bits) ==
    LET c1 == ExcessCheck(EmptyCircuit, bits)
        out == Reconstruct(bits)
        can == Canonicity(c1, bits)
        st == StoreBits(out, bits)
    IN  [circuit |-> can.circuit, output |-> st.output, checks |-> can.checks,
         halted |-> can.halted \/ st.halted]

\* ---------------------------------------------------------------- Metadata
AllConstant(case) == \A i \in 1..Len(case) : IsConstant(case[i])

CountIs(a, b, c, d) ==
    [num_constants |-> a, num_public |-> b, num_private |-> c, num_constraints |-> d]

\* Faulty variant of Count: the all-constant case is not told apart.
CountIgnoringConstants(case) ==
    LET excess_constraints == SaturatingSub(Len(case), size_in_bits)
        excess_private == SaturatingSub(excess_constraints, 1)
    IN  CountIs(0, 0, BasePrivate + excess_private, BaseConstraints + excess_constraints)

\* Metadata::count
Count(case) ==
    IF AllConstant(case) THEN CountIs(0, 0, 0, 0)
    ELSE LET excess_constraints == SaturatingSub(Len(case), size_in_bits)
             excess_private == SaturatingSub(excess_constraints, 1)
         IN  CountIs(0, 0, BasePrivate + excess_private, BaseConstraints + excess_constraints)

\* Metadata::output_type
OutputType(case) ==
    LET mode == EjectMode(case)
    IN  IF mode = "Constant"
        THEN [mode |-> "Constant", known |-> TRUE, value |-> FromBitsLE(case).output.value]
        ELSE [mode |-> mode, known |-> FALSE, value |-> 0]

\* What the environment counted for the scope of the call.
Counted(c) == CountIs(c.num_constants, c.num_public, c.num_private, c.num_constraints)

\* ------------------------------------------------------------ state machine
NoField == NewField(0, "Constant")

Init ==
    /\ MODULUS \in Moduli
    /\ pc = "idle"
    /\ bits_le = <<>>
    /\ circuit = EmptyCircuit
    /\ output = NoField
    /\ checks = 0

\* from_bits_le(bits_le) is entered with some sequence of booleans.
Call ==
    /\ pc = "idle"
    /\ \E n \in 0..(size_in_bits + MaxExcess) :
           \E s \in [1..n -> Booleans] : bits_le' = s
    /\ pc' = "excess"
    /\ UNCHANGED <<MODULUS, circuit, output, checks>>

ExcessStep ==
    /\ pc = "excess"
    /\ circuit' = ExcessCheck(circuit, bits_le)
    /\ pc' = "reconstruct"
    /\ UNCHANGED <<MODULUS, bits_le, output, checks>>

ReconstructStep ==
    /\ pc = "reconstruct"
    /\ output' = Reconstruct(bits_le)
    /\ pc' = "canonicity"
    /\ UNCHANGED <<MODULUS, bits_le, circuit, checks>>

CanonicityStep ==
    /\ pc = "canonicity"
    /\ LET r == Canonicity(circuit, bits_le)
       IN  /\ circuit' = r.circuit
           /\ checks' = r.checks
           /\ pc' = IF r.halted THEN "halted" ELSE "store"
    /\ UNCHANGED <<MODULUS, bits_le, output>>

StoreStep ==
    /\ pc = "store"
    /\ LET r == StoreBits(output, bits_le)
       IN  /\ output' = r.output
           /\ pc' = IF r.halted THEN "halted" ELSE "done"
    /\ UNCHANGED <<MODULUS, bits_le, circuit, checks>>

Next == Call \/ ExcessStep \/ ReconstructStep \/ CanonicityStep \/ StoreStep

Spec == Init /\ [][Next]_vars

\* The same call over more fields, entered with at most size_in_bits bits.
InitWide ==
    /\ MODULUS \in WideModuli
    /\ pc = "idle"
    /\ bits_le = <<>>
    /\ circuit = EmptyCircuit
    /\ output = NoField
    /\ checks = 0

CallExact ==
    /\ pc = "idle"
    /\ \E n \in 0..size_in_bits :
           \E s \in [1..n -> Booleans] : bits_le' = s
    /\ pc' = "excess"
    /\ UNCHANGED <<MODULUS, circuit, output, checks>>

NextWide == CallExact \/ ExcessStep \/ ReconstructStep \/ CanonicityStep \/ StoreStep

SpecWide == InitWide /\ [][NextWide]_vars

Done == pc = "done"

TypeOK ==
    /\ MODULUS \in Moduli \cup WideModuli
    /\ pc \in {"idle", "excess", "reconstruct", "canonicity", "store", "done", "halted"}
    /\ \A i \in 1..Len(bits_le) : bits_le[i] \in Booleans
    /\ circuit.num_private >= 0 /\ circuit.num_constraints >= 0
    /\ output.value \in 0..(MODULUS - 1)

\* ---------------------------------------------------------------- claims
\* The little-endian numeric value of a bit sequence (no reduction).
RECURSIVE NumericValue(_)
NumericValue(s) ==
    IF s = <<>> THEN 0
    ELSE (IF s[1].value THEN 1 ELSE 0) + 2 * NumericValue(Tail(s))

Witnessed(s) == \A i \in 1..Len(s) : ~IsConstant(s[i])

Values(s) == [i \in 1..Len(s) |-> s[i].value]

Excess(s) == Len(s) - size_in_bits

\* Number of 0 bits of modulus - 1: the NAND assertions one comparison makes.
ZeroBits(x) == Cardinality({i \in 1..size_in_bits : ~ToBitsBE(x)[i]})

\* C1: for a witnessed input of exactly size_in_bits bits, the emitted
\* constraints are all satisfied iff the little-endian value of the bits is
\* <= MODULUS - 1, and then the returned element's value is that value; for
\* MODULUS = 11, bits [1,1,0,1] are rejected and [0,1,0,1] give 10.
C1_SatisfiedIffCanonical ==
    (Done /\ Len(bits_le) = size_in_bits /\ Witnessed(bits_le)) =>
        /\ circuit.satisfied <=> NumericValue(bits_le) <= MODULUS - 1
        /\ circuit.satisfied => output.value = NumericValue(bits_le)
        /\ (MODULUS = 11 /\ Values(bits_le) = <<TRUE, TRUE, FALSE, TRUE>>) => ~circuit.satisfied
        /\ (MODULUS = 11 /\ Values(bits_le) = <<FALSE, TRUE, FALSE, TRUE>>) =>
               circuit.satisfied /\ output.value = 10

C1_Witness ==
    /\ Done /\ MODULUS = 11 /\ Witnessed(bits_le)
    /\ Values(bits_le) = <<TRUE, TRUE, FALSE, TRUE>>
    /\ ~circuit.satisfied

\* C2: round trip: from_bits_le of the canonical size_in_bits-bit
\* decomposition of x, in any mode, returns x with every constraint satisfied
\* and caches exactly size_in_bits bits.
C2_RoundTrip ==
    Done => \A mode \in Modes : \A x \in 0..(MODULUS - 1) :
        bits_le = ToBitsLE(mode, x) =>
            /\ output.value = x
            /\ circuit.satisfied
            /\ output.cached /\ Len(output.bits_le) = size_in_bits

C2_Witness ==
    /\ Done /\ MODULUS = 11
    /\ bits_le = ToBitsLE("Public", 7)
    /\ output.value = 7 /\ Len(output.bits_le) = 4

\* C3: an input longer than size_in_bits with a true bit at some excess
\* position is unsatisfiable, whatever the first size_in_bits bits are.
C3_ExcessNonzeroRejected ==
    (Done /\ \E i \in (size_in_bits + 1)..Len(bits_le) : bits_le[i].value) =>
        ~circuit.satisfied

C3_Witness ==
    /\ Done /\ Excess(bits_le) = 2
    /\ ~bits_le[size_in_bits + 1].value /\ bits_le[size_in_bits + 2].value
    /\ NumericValue(Take(bits_le, size_in_bits)) < MODULUS
    /\ Witnessed(bits_le)
    /\ ~circuit.satisfied

\* C4: a canonical size_in_bits-bit sequence followed by k false bits gives a
\* satisfied circuit, the same value as without the padding, and a cache of
\* exactly the first size_in_bits bits.
C4_ExcessZeroTolerated ==
    (/\ Done /\ Excess(bits_le) >= 0
     /\ NumericValue(Take(bits_le, size_in_bits)) < MODULUS
     /\ \A i \in (size_in_bits + 1)..Len(bits_le) : ~bits_le[i].value) =>
        /\ circuit.satisfied
        /\ output.value = FromBitsLE(Take(bits_le, size_in_bits)).output.value
        /\ Len(output.bits_le) = size_in_bits
        /\ output.bits_le = Take(bits_le, size_in_bits)

C4_Witness ==
    /\ Done /\ MODULUS = 7 /\ Excess(bits_le) = 2
    /\ \A i \in 4..5 : ~bits_le[i].value /\ bits_le[i].mode = "Private"
    /\ output.value = 6 /\ circuit.satisfied /\ Len(output.bits_le) = 3

\* C5: count(shape) equals what from_bits_le allocates, for every shape.
C5_CountExact ==
    Done => Count(bits_le) = Counted(circuit)

\* C6: an all-Constant input of any length allocates nothing, count predicts
\* (0, 0, 0, 0), and the returned element is Constant with a known value.
C6_ConstantZeroCost ==
    (Done /\ AllConstant(bits_le)) =>
        /\ Counted(circuit) = CountIs(0, 0, 0, 0)
        /\ Count(bits_le) = CountIs(0, 0, 0, 0)
        /\ output.mode = "Constant"
        /\ OutputType(bits_le).known /\ OutputType(bits_le).value = output.value

C6_Witness ==
    /\ Done /\ AllConstant(bits_le) /\ Excess(bits_le) = 1
    /\ bits_le[1].value
    /\ circuit.num_constraints = 0 /\ output.mode = "Constant"

C8_OutputTypeExact ==
    Done =>
        LET t == OutputType(bits_le)
        IN  /\ AllConstant(bits_le) => t.mode = "Constant" /\ t.known /\ t.value = output.value
            /\ (\E i \in 1..Len(bits_le) : bits_le[i].mode = "Private") => t.mode = "Private"
            /\ (/\ \E i \in 1..Len(bits_le) : bits_le[i].mode = "Public"
                /\ \A i \in 1..Len(bits_le) : bits_le[i].mode # "Private") => t.mode = "Public"
            /\ t.mode = output.mode

\* C9: the comparison against modulus - 1 runs iff the input is longer than
\* size_in_data_bits; a shorter input emits no constraint, is satisfiable and
\* gives its numeric value, which is below the modulus.
C9_DataBitsBoundary ==
    Done =>
        /\ checks > 0 <=> Len(bits_le) > size_in_data_bits
        /\ Len(bits_le) <= size_in_data_bits =>
               /\ Counted(circuit) = CountIs(0, 0, 0, 0)
               /\ circuit.satisfied
               /\ output.value = NumericValue(bits_le)
               /\ NumericValue(bits_le) < MODULUS
        /\ Len(bits_le) = size_in_data_bits + 1 => checks = ZeroBits(MODULUS - 1)

C9_Witness ==
    /\ Done /\ MODULUS = 5 /\ Len(bits_le) = size_in_data_bits
    /\ Witnessed(bits_le) /\ \A i \in 1..Len(bits_le) : bits_le[i].value
    /\ checks = 0 /\ output.value = 3

\* C10: construction never aborts: no position of from_bits_le halts (no
\* E::halt, failed debug_assert or zip_eq panic), the bit cache is empty until
\* it is written once, and it then holds the first size_in_bits bits padded
\* with constant false.
C10_NeverAborts ==
    /\ pc # "halted"
    /\ pc \in {"canonicity", "store"} => ~output.cached /\ output.writes = 0
    /\ Done =>
           /\ output.cached /\ output.writes = 1
           /\ output.bits_le =
                  [i \in 1..size_in_bits |->
                      IF i <= Len(bits_le) THEN bits_le[i] ELSE Bool("Constant", FALSE)]

C10_Witness ==
    /\ Done /\ Excess(bits_le) = 1 /\ bits_le[Len(bits_le)].value
    /\ NumericValue(Take(bits_le, size_in_bits)) >= MODULUS
    /\ ~circuit.satisfied /\ output.writes = 1

====
